---- MODULE Spec2Model ----
(***************************************************************************)
(* A model of the structure-learning driver (project1.py) and of the graph *)
(* plotting script (plot_graph.py).                                        *)
(*                                                                         *)
(*   SpecCodec   write_gph followed by read_gph on the text it produced    *)
(*   SpecLayout  choose_layout / hierarchical_layout on a directed graph   *)
(*   SpecRun     main and compute: the stages of one run                   *)
(*                                                                         *)
(* A Python str is a sequence of one-character strings.                    *)
(***************************************************************************)
EXTENDS Integers, Sequences, FiniteSets, TLC

VARIABLES
    \* --- write_gph / read_gph
    c_pc,        \* "start", "written", "read"
    c_names,     \* idx2names: node index -> name
    c_edges,     \* the edge list handed to write_gph
    c_text,      \* the content of the .gph file
    c_graph,     \* what read_gph returned: a graph, or the ValueError it raised
    \* --- choose_layout / hierarchical_layout
    l_pc,        \* "start", "hierarchical", "levels", "place", "except", "done", "raised"
    l_n,         \* the graph's nodes are 1 .. l_n, numbered in insertion order
    l_edges,     \* the graph's edges
    l_kind,      \* choose_layout's kind
    l_seed,      \* choose_layout's seed
    l_order,     \* the order nx.topological_sort yields
    l_levels,    \* levels, as a sequence of <<node, level>> in insertion order
    l_pos,       \* the layout returned
    l_result,    \* "ok", or the exception choose_layout raised
    \* --- main / compute
    r_pc,        \* where the run is: "main", a stage, "returned" or "raised"
    r_args,      \* the parsed command line
    r_outfile,   \* the resolved output path
    r_generate_png,
    r_dataset,   \* the names DiscreteDataset loaded, <<>> before
    r_result,    \* [learned, edges]: what learner.learn returned
    r_gph,       \* the graph file
    r_json,      \* <stem>_summary.json
    r_png,       \* <stem>.png
    r_logfile,   \* the records of the log file
    r_console,   \* the records of the console handler
    r_failed,    \* the stage an exception left the run from
    r_sub        \* what the plot subprocess did

cvars == <<c_pc, c_names, c_edges, c_text, c_graph>>
lvars == <<l_pc, l_n, l_edges, l_kind, l_seed, l_order, l_levels, l_pos, l_result>>
rvars == <<r_pc, r_args, r_outfile, r_generate_png, r_dataset, r_result, r_gph,
           r_json, r_png, r_logfile, r_console, r_failed, r_sub>>
vars == <<cvars, lvars, rvars>>

----------------------------------------------------------------------------
(* Bounds of the codec model. *)
MaxNameLen == 1
MaxEdges == 2
NumVars == 2

(* The characters names are made of: a letter, the field separator and a
   blank. *)
Alphabet == {"a", ",", " "}

None == "None"
ValueError == "ValueError"

----------------------------------------------------------------------------
(* str helpers *)

IsSpace(c) == c \in {" ", "\n"}

RECURSIVE LStrip(_)
LStrip(s) == IF s # <<>> /\ IsSpace(Head(s)) THEN LStrip(Tail(s)) ELSE s

RECURSIVE RStrip(_)
RStrip(s) ==
    IF s # <<>> /\ IsSpace(s[Len(s)]) THEN RStrip(SubSeq(s, 1, Len(s) - 1)) ELSE s

\* str.strip()
Strip(s) == RStrip(LStrip(s))

\* str.split(sep) for a one-character separator: always at least one field
RECURSIVE Split(_, _)
Split(s, sep) ==
    IF \A i \in 1 .. Len(s) : s[i] # sep
    THEN <<s>>
    ELSE LET i == CHOOSE k \in 1 .. Len(s) :
                      s[k] = sep /\ \A j \in 1 .. k - 1 : s[j] # sep
         IN  <<SubSeq(s, 1, i - 1)>> \o Split(SubSeq(s, i + 1, Len(s)), sep)

\* iterating a text file: the lines of the text
FileLines(text) == Split(text, "\n")

Range(s) == {s[i] : i \in 1 .. Len(s)}

RECURSIVE StrsUpTo(_)
StrsUpTo(n) ==
    IF n = 0 THEN {<<>>}
    ELSE LET shorter == StrsUpTo(n - 1)
         IN  shorter \cup {Append(s, c) : s \in shorter, c \in Alphabet}

RECURSIVE SeqsUpTo(_, _)
SeqsUpTo(S, n) ==
    IF n = 0 THEN {<<>>}
    ELSE LET shorter == SeqsUpTo(S, n - 1)
         IN  shorter \cup {Append(s, x) : s \in shorter, x \in S}

----------------------------------------------------------------------------
(* project1.py: write_gph.  One line per edge, in the order given. *)

RECURSIVE write_gph(_, _)
write_gph(edges, idx2names) ==
    IF edges = <<>> THEN <<>>
    ELSE LET e == Head(edges)
         IN  idx2names[e[1]] \o <<",", " ">> \o idx2names[e[2]] \o <<"\n">>
                 \o write_gph(Tail(edges), idx2names)

(* plot_graph.py: read_gph. *)

\* [part.strip() for part in stripped.split(",")]
LineParts_nostrip(stripped) == Split(stripped, ",")

LineParts(stripped) ==
    LET raw == Split(stripped, ",")
    IN  [i \in 1 .. Len(raw) |-> Strip(raw[i])]

NotBlank(line) == line # <<>>

\* the non-blank lines, stripped
StrippedLines(text) ==
    LET ls == FileLines(text)
    IN  SelectSeq([i \in 1 .. Len(ls) |-> Strip(ls[i])], NotBlank)

\* lines 18-41: the edges of the first pass, the tokens of the second
read_gph(text) ==
    LET ls == StrippedLines(text)
        parts == [i \in 1 .. Len(ls) |-> LineParts(ls[i])]
    IN  IF \E i \in 1 .. Len(ls) : Len(parts[i]) # 2
        THEN [raised |-> ValueError, nodes |-> {}, edges |-> {}]
        ELSE LET edges == {<<parts[i][1], parts[i][2]>> : i \in 1 .. Len(ls)}
                 unique_nodes == UNION {Range(parts[i]) : i \in 1 .. Len(ls)}
             IN  [raised |-> None,
                  nodes |-> {e[1] : e \in edges} \cup {e[2] : e \in edges}
                                \cup unique_nodes,
                  edges |-> edges]

----------------------------------------------------------------------------
(* SpecCodec *)

NoGraph == [raised |-> None, nodes |-> {}, edges |-> {}]

VarIdx == 0 .. NumVars - 1

Names == StrsUpTo(MaxNameLen)

InitCodec ==
    /\ c_pc = "start"
    /\ c_names \in {f \in [VarIdx -> Names] :
                        \A u, v \in VarIdx : u # v => f[u] # f[v]}
    /\ c_edges \in SeqsUpTo(VarIdx \X VarIdx, MaxEdges)
    /\ c_text = <<>>
    /\ c_graph = NoGraph

\* project1.py lines 53-59
WriteGph ==
    /\ c_pc = "start"
    /\ c_text' = write_gph(c_edges, c_names)
    /\ c_pc' = "written"
    /\ UNCHANGED <<c_names, c_edges, c_graph>>
    /\ UNCHANGED <<lvars, rvars>>

\* plot_graph.py lines 18-41
ReadGph ==
    /\ c_pc = "written"
    /\ c_graph' = read_gph(c_text)
    /\ c_pc' = "read"
    /\ UNCHANGED <<c_names, c_edges, c_text>>
    /\ UNCHANGED <<lvars, rvars>>

NextCodec == WriteGph \/ ReadGph


----------------------------------------------------------------------------
(* plot_graph.py: choose_layout and hierarchical_layout.

   The graph is an nx.DiGraph whose nodes are numbered 1 .. n in insertion
   order (the order graph.nodes() iterates in).  A coordinate is an exact
   fraction <<numerator, denominator>> in lowest terms. *)

NumNodes == 3

Kinds == {"hierarchy", "HIERARCHY", "spring", "kamada_kawai", "circular",
          "shell", "grid"}
Seeds == {42, 7}

\* str.lower() on the layout names
Lower(kind) == IF kind = "HIERARCHY" THEN "hierarchy" ELSE kind

RECURSIVE GCD(_, _)
GCD(a, b) == IF b = 0 THEN a ELSE GCD(b, a % b)

Frac(num, den) == LET g == GCD(num, den) IN <<num \div g, den \div g>>
FracAdd(a, b) == Frac(a[1] * b[2] + b[1] * a[2], a[2] * b[2])

Max(S) == CHOOSE x \in S : \A y \in S : y <= x

\* graph.predecessors(node)
Predecessors(edges, node) == {e[1] : e \in {d \in edges : d[2] = node}}

RECURSIVE Reachable(_, _, _)
Reachable(edges, frontier, k) ==
    IF k = 0 THEN frontier
    ELSE Reachable(edges,
                   frontier \cup {e[2] : e \in {d \in edges : d[1] \in frontier}},
                   k - 1)

\* nx.is_directed_acyclic_graph: no node reaches itself along one or more edges
is_directed_acyclic_graph(n, edges) ==
    \A v \in 1 .. n :
        v \notin Reachable(edges, {e[2] : e \in {d \in edges : d[1] = v}}, n)

\* what nx.topological_sort may yield: every node once, parents before children
TopologicalOrders(n, edges) ==
    {o \in [1 .. n -> 1 .. n] :
        /\ \A i, j \in 1 .. n : i # j => o[i] # o[j]
        /\ \A e \in edges :
              \E i, j \in 1 .. n : i < j /\ o[i] = e[1] /\ o[j] = e[2]}

\* the levels dict is kept as the sequence of its <<node, level>> items, in
\* insertion order (the order levels.items() iterates in)
LevelOf(levels, node) ==
    levels[CHOOSE i \in 1 .. Len(levels) : levels[i][1] = node][2]

\* lines 49-53
NodeLevel_min(edges, levels, node) ==
    LET parents == Predecessors(edges, node)
    IN  IF parents = {} THEN 0
        ELSE -Max({-(LevelOf(levels, parent) + 1) : parent \in parents})

NodeLevel(edges, levels, node) ==
    LET parents == Predecessors(edges, node)
    IN  IF parents = {} THEN 0
        ELSE Max({LevelOf(levels, parent) + 1 : parent \in parents})

\* nodes_by_level[lvl]: lines 55-57
NodesByLevel_sorted(levels, lvl) ==
    LET here == {levels[i][1] : i \in {k \in 1 .. Len(levels) : levels[k][2] = lvl}}
    IN  SelectSeq([v \in 1 .. Len(levels) |-> v], LAMBDA v : v \in here)

NodesByLevel(levels, lvl) ==
    LET items == SelectSeq(levels, LAMBDA item : item[2] = lvl)
    IN  [i \in 1 .. Len(items) |-> items[i][1]]

\* idx * spacing + spacing / 2, with spacing = 1.0 / max(len(nodes), 1): lines 63-65
XCoord(idx, count) ==
    FracAdd(Frac(idx, Max({count, 1})), Frac(1, 2 * Max({count, 1})))

IndexOf(seq, x) == (CHOOSE i \in 1 .. Len(seq) : seq[i] = x) - 1

\* lines 54-70: the positions of the nodes, level by level, then the default
\* (0.5, 0.0) for a node the levels left out
HierarchyPositions(n, levels) ==
    [node \in 1 .. n |->
        IF \E i \in 1 .. Len(levels) : levels[i][1] = node
        THEN LET lvl == LevelOf(levels, node)
                 nodes == NodesByLevel(levels, lvl)
             IN  <<XCoord(IndexOf(nodes, node), Len(nodes)), -lvl>>
        ELSE <<Frac(1, 2), 0>>]

\* nx.spring_layout(graph, seed=seed): one position per node, a function of
\* the graph and the seed
spring_layout(n, edges, seed) ==
    [kind |-> "spring", seed |-> seed, pos |-> [v \in 1 .. n |-> <<"spring", v>>]]

\* nx.kamada_kawai_layout, nx.circular_layout, nx.shell_layout
library_layout(kind, n, edges) ==
    [kind |-> kind, pos |-> [v \in 1 .. n |-> <<kind, v>>]]

----------------------------------------------------------------------------
(* SpecLayout *)

NoLayout == [kind |-> None, pos |-> <<>>]

InitLayout ==
    /\ l_pc = "start"
    /\ l_n \in 0 .. NumNodes
    /\ l_edges \in SUBSET ((1 .. l_n) \X (1 .. l_n))
    /\ l_kind \in Kinds
    /\ l_seed \in Seeds
    /\ l_order = <<>>
    /\ l_levels = <<>>
    /\ l_pos = NoLayout
    /\ l_result = None

\* choose_layout, lines 73-89, up to the call of hierarchical_layout
ChooseLayout ==
    /\ l_pc = "start"
    /\ LET kind == Lower(l_kind)
       IN  CASE kind = "spring" ->
                    /\ l_pos' = spring_layout(l_n, l_edges, l_seed)
                    /\ l_result' = "ok"
                    /\ l_pc' = "done"
             [] kind \in {"kamada_kawai", "circular", "shell"} ->
                    /\ l_pos' = library_layout(kind, l_n, l_edges)
                    /\ l_result' = "ok"
                    /\ l_pc' = "done"
             [] kind = "hierarchy" ->
                    /\ l_pc' = "hierarchical"
                    /\ UNCHANGED <<l_pos, l_result>>
             [] OTHER ->
                    /\ l_result' = ValueError
                    /\ l_pc' = "raised"
                    /\ UNCHANGED l_pos
    /\ UNCHANGED <<l_n, l_edges, l_kind, l_seed, l_order, l_levels>>
    /\ UNCHANGED <<cvars, rvars>>

\* hierarchical_layout, lines 45-48: the DAG test, then the topological sort
HierarchicalLayout ==
    /\ l_pc = "hierarchical"
    /\ IF is_directed_acyclic_graph(l_n, l_edges)
       THEN /\ l_order' \in TopologicalOrders(l_n, l_edges)
            /\ l_pc' = "levels"
       ELSE /\ l_pc' = "except"
            /\ UNCHANGED l_order
    /\ UNCHANGED <<l_n, l_edges, l_kind, l_seed, l_levels, l_pos, l_result>>
    /\ UNCHANGED <<cvars, rvars>>

\* one turn of the loop of lines 48-53
AssignLevel ==
    /\ l_pc = "levels"
    /\ Len(l_levels) < l_n
    /\ LET node == l_order[Len(l_levels) + 1]
       IN  l_levels' = Append(l_levels, <<node, NodeLevel(l_edges, l_levels, node)>>)
    /\ UNCHANGED <<l_pc, l_n, l_edges, l_kind, l_seed, l_order, l_pos, l_result>>
    /\ UNCHANGED <<cvars, rvars>>

\* lines 54-70, and the return through choose_layout
PlaceNodes ==
    /\ l_pc = "levels"
    /\ Len(l_levels) = l_n
    /\ l_pos' = [kind |-> "hierarchy", pos |-> HierarchyPositions(l_n, l_levels)]
    /\ l_result' = "ok"
    /\ l_pc' = "done"
    /\ UNCHANGED <<l_n, l_edges, l_kind, l_seed, l_order, l_levels>>
    /\ UNCHANGED <<cvars, rvars>>

\* choose_layout, lines 86-88: the ValueError of hierarchical_layout is caught
Fallback_reraise ==
    /\ l_pc = "except"
    /\ l_result' = ValueError
    /\ l_pc' = "raised"
    /\ UNCHANGED <<l_n, l_edges, l_kind, l_seed, l_order, l_levels, l_pos>>
    /\ UNCHANGED <<cvars, rvars>>

Fallback ==
    /\ l_pc = "except"
    /\ l_pos' = spring_layout(l_n, l_edges, l_seed)
    /\ l_result' = "ok"
    /\ l_pc' = "done"
    /\ UNCHANGED <<l_n, l_edges, l_kind, l_seed, l_order, l_levels>>
    /\ UNCHANGED <<cvars, rvars>>

NextLayout ==
    \/ ChooseLayout
    \/ HierarchicalLayout
    \/ AssignLevel
    \/ PlaceNodes
    \/ Fallback

----------------------------------------------------------------------------
(* project1.py: main and compute.

   A path is what pathlib parsed: whether it is absolute, its directories,
   and its final component split at the dots ("foo.v2.gph" is
   <<"foo", "v2", "gph">>, ".gph" is <<"", "gph">>). *)

NoSuffix == "<none>"

\* PurePath.suffix: the part after the last dot, unless that dot leads the name
Suffix(name) ==
    IF Len(name) >= 2 /\ ~(Len(name) = 2 /\ name[1] = "")
    THEN name[Len(name)]
    ELSE NoSuffix

\* str.lower() on the extensions
LowerExt(ext) == IF ext = "GPH" THEN "gph" ELSE ext

\* PurePath.with_suffix: the suffix is replaced, or added when there is none
with_suffix(name, ext) ==
    IF Suffix(name) = NoSuffix
    THEN Append(name, ext)
    ELSE Append(SubSeq(name, 1, Len(name) - 1), ext)

\* Path(__file__).resolve().parent / "output"
DefaultOutputDir == <<"project1", "output">>

\* main, lines 236-248
ResolveOutput(output_gph) ==
    LET requested ==
            IF LowerExt(Suffix(output_gph.name)) # "gph"
            THEN [output_gph EXCEPT !.name = with_suffix(output_gph.name, "gph")]
            ELSE output_gph
    IN  IF requested.abs \/ requested.dirs # <<>>
        THEN requested
        ELSE [abs |-> TRUE, dirs |-> DefaultOutputDir, name |-> requested.name]

\* main, line 275: generate_png=not args.no_png
GeneratePng(args) == ~args.no_png

\* the command lines main is run with
OutputNames == {<<"foo">>, <<"foo", "gph">>, <<"foo", "GPH">>, <<"foo", "txt">>,
                <<"foo", "v2">>, <<"foo", "v2", "gph">>}

OutputPaths == {[abs |-> a, dirs |-> d, name |-> n] :
                   a \in BOOLEAN, d \in {<<>>, <<"runs">>}, n \in OutputNames}

Args == [output_gph : OutputPaths, dry_run : BOOLEAN, no_png : BOOLEAN]

\* what DiscreteDataset and learner.learn return
DatasetNames == <<<<"x">>, <<"y">>>>
LearnedEdges == {<<>>, <<<<0, 1>>>>, <<<<1, 0>>>>}

\* the log records, one for each group of logger calls
Info(msg) == [level |-> "INFO", msg |-> msg]
Warning(msg) == [level |-> "WARNING", msg |-> msg]

NoFile == [exists |-> FALSE, complete |-> FALSE, content |-> <<>>]
File(content) == [exists |-> TRUE, complete |-> TRUE, content |-> content]
Truncated(content) == [exists |-> TRUE, complete |-> FALSE, content |-> content]

\* idx2name, line 121
Idx2Name(names) == [idx \in 0 .. Len(names) - 1 |-> names[idx + 1]]

\* the summary of lines 138-174, as far as it depends on the run
Summary(outfile, names, edges) ==
    <<[output_file |-> outfile,
       variable_names |-> names,
       num_edges |-> Len(edges),
       edges |-> [i \in 1 .. Len(edges) |->
                     <<Idx2Name(names)[edges[i][1]], Idx2Name(names)[edges[i][2]]>>]]>>

\* f"{Path(outfile).stem}.png", line 186
PngName(name) == with_suffix(name, "png")

\* lines 201-210: the record logged for what the subprocess did
SubprocessRecord(outcome) ==
    CASE outcome = "ok" -> Info("PNG visualization saved to")
      [] outcome = "nonzero" -> Warning("Failed to generate PNG")
      [] outcome = "timeout" -> Warning("PNG generation timed out")
      [] outcome = "spawn_failure" -> Warning("Failed to generate PNG")

\* lines 201-210: where compute is after the subprocess; every outcome is caught
AfterSubprocess_uncaught(outcome) ==
    IF outcome = "timeout" THEN "raised" ELSE "returned"

AfterSubprocess(outcome) == "returned"

\* the stage that follows learner.learn, line 107
AfterLearn_swallow(ok) == "persist"

AfterLearn(ok) == IF ok THEN "persist" ELSE "raised"

\* main, lines 249 and 275: the dry run returns before compute is called
AfterResolve_nodry(args) == "compute"

AfterResolve(args) == IF args.dry_run THEN "dry_run" ELSE "compute"

----------------------------------------------------------------------------
(* SpecRun *)

NoPath == [abs |-> FALSE, dirs |-> <<>>, name |-> <<>>]

InitRun ==
    /\ r_pc = "main"
    /\ r_args \in Args
    /\ r_outfile = NoPath
    /\ r_generate_png = FALSE
    /\ r_dataset = <<>>
    /\ r_result = [learned |-> FALSE, edges |-> <<>>]
    /\ r_gph = NoFile
    /\ r_json = NoFile
    /\ r_png = NoFile
    /\ r_logfile = <<>>
    /\ r_console = <<>>
    /\ r_failed = "none"
    /\ r_sub = "none"

\* logger.info / logger.warning: both handlers take every record
Logged(records) ==
    /\ r_logfile' = r_logfile \o records
    /\ r_console' = r_console \o records

\* main, lines 232-249 and 275
Main ==
    /\ r_pc = "main"
    /\ r_outfile' = ResolveOutput(r_args.output_gph)
    /\ r_pc' = AfterResolve(r_args)
    /\ r_generate_png' = IF r_pc' = "compute" THEN GeneratePng(r_args) ELSE FALSE
    /\ UNCHANGED <<r_args, r_dataset, r_result, r_gph, r_json, r_png, r_logfile,
                   r_console, r_failed, r_sub>>
    /\ UNCHANGED <<cvars, lvars>>

\* main, lines 250-259: setup_logging and the banner of the dry run
DryRun_Start ==
    /\ r_pc = "dry_run"
    /\ \E ok \in BOOLEAN :
          IF ok
          THEN /\ Logged(<<Info("DRY RUN - Bayesian Structure Learning")>>)
               /\ r_pc' = "dry_ingest"
               /\ UNCHANGED r_failed
          ELSE /\ r_pc' = "raised"
               /\ r_failed' = "LOGGING"
               /\ UNCHANGED <<r_logfile, r_console>>
    /\ UNCHANGED <<r_args, r_outfile, r_generate_png, r_dataset, r_result, r_gph,
                   r_json, r_png, r_sub>>
    /\ UNCHANGED <<cvars, lvars>>

\* main, lines 261-274
DryRun_Ingest ==
    /\ r_pc = "dry_ingest"
    /\ \E outcome \in {"ok", "INGEST", "CONFIGURE"} :
          IF outcome = "ok"
          THEN /\ r_dataset' = DatasetNames
               /\ Logged(<<Info("Configuration:"), Info("DRY RUN COMPLETED")>>)
               /\ r_pc' = "returned"
               /\ UNCHANGED r_failed
          ELSE /\ r_dataset' = IF outcome = "CONFIGURE" THEN DatasetNames ELSE r_dataset
               /\ r_pc' = "raised"
               /\ r_failed' = outcome
               /\ UNCHANGED <<r_logfile, r_console>>
    /\ UNCHANGED <<r_args, r_outfile, r_generate_png, r_result, r_gph, r_json,
                   r_png, r_sub>>
    /\ UNCHANGED <<cvars, lvars>>

\* compute, lines 62-75: setup_logging and the banner
Compute_Start ==
    /\ r_pc = "compute"
    /\ \E ok \in BOOLEAN :
          IF ok
          THEN /\ Logged(<<Info("Starting Bayesian Structure Learning")>>)
               /\ r_pc' = "ingest"
               /\ UNCHANGED r_failed
          ELSE /\ r_pc' = "raised"
               /\ r_failed' = "LOGGING"
               /\ UNCHANGED <<r_logfile, r_console>>
    /\ UNCHANGED <<r_args, r_outfile, r_generate_png, r_dataset, r_result, r_gph,
                   r_json, r_png, r_sub>>
    /\ UNCHANGED <<cvars, lvars>>

\* compute, lines 77-84: INGEST
Compute_Ingest ==
    /\ r_pc = "ingest"
    /\ \E ok \in BOOLEAN :
          IF ok
          THEN /\ r_dataset' = DatasetNames
               /\ Logged(<<Info("Loading dataset..."),
                           Info("Dataset loaded successfully")>>)
               /\ r_pc' = "configure"
               /\ UNCHANGED r_failed
          ELSE /\ Logged(<<Info("Loading dataset...")>>)
               /\ r_pc' = "raised"
               /\ r_failed' = "INGEST"
               /\ UNCHANGED r_dataset
    /\ UNCHANGED <<r_args, r_outfile, r_generate_png, r_result, r_gph, r_json,
                   r_png, r_sub>>
    /\ UNCHANGED <<cvars, lvars>>

\* compute, lines 86-101: CONFIGURE
Compute_Configure ==
    /\ r_pc = "configure"
    /\ \E ok \in BOOLEAN :
          IF ok
          THEN /\ Logged(<<Info("Configuration generated:")>>)
               /\ r_pc' = "learn"
               /\ UNCHANGED r_failed
          ELSE /\ r_pc' = "raised"
               /\ r_failed' = "CONFIGURE"
               /\ UNCHANGED <<r_logfile, r_console>>
    /\ UNCHANGED <<r_args, r_outfile, r_generate_png, r_dataset, r_result, r_gph,
                   r_json, r_png, r_sub>>
    /\ UNCHANGED <<cvars, lvars>>

\* compute, lines 103-123: LEARN
Compute_Learn ==
    /\ r_pc = "learn"
    /\ \E ok \in BOOLEAN :
          /\ r_pc' = AfterLearn(ok)
          /\ IF ok
             THEN /\ \E edges \in LearnedEdges :
                        r_result' = [learned |-> TRUE, edges |-> edges]
                  /\ Logged(<<Info("Starting structure learning..."),
                              Info("Structure learning completed!")>>)
                  /\ UNCHANGED r_failed
             ELSE /\ Logged(<<Info("Starting structure learning...")>>)
                  /\ r_failed' = "LEARN"
                  /\ UNCHANGED r_result
    /\ UNCHANGED <<r_args, r_outfile, r_generate_png, r_dataset, r_gph, r_json,
                   r_png, r_sub>>
    /\ UNCHANGED <<cvars, lvars>>

\* compute, lines 125-127: PERSIST, the graph file.  mkdir or open may fail
\* (nothing is written), and so may a write (the file is left truncated).
Compute_WriteGph ==
    /\ r_pc = "persist"
    /\ Logged(<<Info("Writing output file...")>>)
    /\ LET idx2name == Idx2Name(DatasetNames)
       IN  \E outcome \in {"ok", "open_failed", "write_failed"} :
              CASE outcome = "ok" ->
                      /\ r_gph' = File(write_gph(r_result.edges, idx2name))
                      /\ r_pc' = "summary"
                      /\ UNCHANGED r_failed
                [] outcome = "open_failed" ->
                      /\ r_pc' = "raised"
                      /\ r_failed' = "PERSIST"
                      /\ UNCHANGED r_gph
                [] outcome = "write_failed" ->
                      /\ \E k \in 0 .. Len(r_result.edges) :
                            r_gph' = Truncated(write_gph(SubSeq(r_result.edges, 1, k),
                                                         idx2name))
                      /\ r_pc' = "raised"
                      /\ r_failed' = "PERSIST"
    /\ UNCHANGED <<r_args, r_outfile, r_generate_png, r_dataset, r_result, r_json,
                   r_png, r_sub>>
    /\ UNCHANGED <<cvars, lvars>>

\* compute, lines 129-183: the closing banner, then PERSIST, the JSON summary
Compute_WriteSummary ==
    /\ r_pc = "summary"
    /\ \E outcome \in {"ok", "open_failed", "dump_failed"} :
          CASE outcome = "ok" ->
                  /\ r_json' = File(Summary(r_outfile, r_dataset, r_result.edges))
                  /\ Logged(<<Info("Run completed successfully!"),
                              Info("Summary saved to")>>)
                  /\ r_pc' = IF r_generate_png THEN "visualize" ELSE "returned"
                  /\ UNCHANGED r_failed
            [] outcome = "open_failed" ->
                  /\ Logged(<<Info("Run completed successfully!")>>)
                  /\ r_pc' = "raised"
                  /\ r_failed' = "PERSIST"
                  /\ UNCHANGED r_json
            [] outcome = "dump_failed" ->
                  /\ r_json' = Truncated(<<>>)
                  /\ Logged(<<Info("Run completed successfully!")>>)
                  /\ r_pc' = "raised"
                  /\ r_failed' = "PERSIST"
    /\ UNCHANGED <<r_args, r_outfile, r_generate_png, r_dataset, r_result, r_gph,
                   r_png, r_sub>>
    /\ UNCHANGED <<cvars, lvars>>

\* compute, lines 183-210: VISUALIZE.  The subprocess (plot_graph.py main,
\* lines 174-195) reads the graph file and writes args.output only.
Compute_Visualize ==
    /\ r_pc = "visualize"
    /\ \E outcome \in {"ok", "nonzero", "timeout", "spawn_failure"} :
          /\ r_sub' = outcome
          /\ \E image \in IF outcome = "ok" THEN {File(<<"image">>)}
                          ELSE IF outcome = "spawn_failure" THEN {NoFile}
                          ELSE {NoFile, Truncated(<<>>)} :
                IF PngName(r_outfile.name) = r_outfile.name
                THEN /\ r_gph' = IF image.exists THEN image ELSE r_gph
                     /\ r_png' = r_png
                ELSE /\ r_png' = image
                     /\ r_gph' = r_gph
          /\ Logged(<<Info("Generating PNG visualization..."),
                      SubprocessRecord(outcome)>>)
          /\ r_pc' = AfterSubprocess(outcome)
          /\ r_failed' = IF r_pc' = "raised" THEN "VISUALIZE" ELSE r_failed
    /\ UNCHANGED <<r_args, r_outfile, r_generate_png, r_dataset, r_result, r_json>>
    /\ UNCHANGED <<cvars, lvars>>

NextRun ==
    \/ Main
    \/ DryRun_Start
    \/ DryRun_Ingest
    \/ Compute_Start
    \/ Compute_Ingest
    \/ Compute_Configure
    \/ Compute_Learn
    \/ Compute_WriteGph
    \/ Compute_WriteSummary
    \/ Compute_Visualize

----------------------------------------------------------------------------
(* The specifications.  Each one runs one part of the program and leaves the
   variables of the others at rest. *)

CodecIdle ==
    /\ c_pc = "idle"
    /\ c_names = <<>>
    /\ c_edges = <<>>
    /\ c_text = <<>>
    /\ c_graph = NoGraph

LayoutIdle ==
    /\ l_pc = "idle"
    /\ l_n = 0
    /\ l_edges = {}
    /\ l_kind = None
    /\ l_seed = 0
    /\ l_order = <<>>
    /\ l_levels = <<>>
    /\ l_pos = NoLayout
    /\ l_result = None

RunIdle ==
    /\ r_pc = "idle"
    /\ r_args = [output_gph |-> NoPath, dry_run |-> FALSE, no_png |-> FALSE]
    /\ r_outfile = NoPath
    /\ r_generate_png = FALSE
    /\ r_dataset = <<>>
    /\ r_result = [learned |-> FALSE, edges |-> <<>>]
    /\ r_gph = NoFile
    /\ r_json = NoFile
    /\ r_png = NoFile
    /\ r_logfile = <<>>
    /\ r_console = <<>>
    /\ r_failed = "none"
    /\ r_sub = "none"

StartCodec == InitCodec /\ LayoutIdle /\ RunIdle
StartLayout == InitLayout /\ CodecIdle /\ RunIdle
StartRun == InitRun /\ CodecIdle /\ LayoutIdle

SpecCodec == StartCodec /\ [][NextCodec]_vars

SpecLayout == StartLayout /\ [][NextLayout]_vars

SpecRun == StartRun /\ [][NextRun]_vars

----------------------------------------------------------------------------
(* The claims. *)

Finished == r_pc \in {"returned", "raised"}

HasWarning(log) == \E i \in 1 .. Len(log) : log[i].level = "WARNING"

HasFailureRecord(log) ==
    \E i \in 1 .. Len(log) : log[i].level \in {"WARNING", "ERROR", "CRITICAL"}

HasRecord(log, rec) == \E i \in 1 .. Len(log) : log[i] = rec

\* C1: whatever the plot subprocess did (timeout, non-zero exit, spawn
\* failure), compute returns without an exception, a warning is in both logs,
\* and the graph file and the JSON summary are what PERSIST wrote.
C1_VisualizeNonFatal ==
    r_sub \in {"nonzero", "timeout", "spawn_failure"} =>
        /\ r_pc = "returned"
        /\ HasWarning(r_logfile) /\ HasWarning(r_console)
        /\ r_gph = File(write_gph(r_result.edges, Idx2Name(r_dataset)))
        /\ r_json = File(Summary(r_outfile, r_dataset, r_result.edges))

C1_Witness ==
    r_sub = "timeout" /\ r_pc = "returned" /\ ~r_png.exists /\ r_gph.exists

\* C2: while learner.learn has not returned, no artifact exists and neither
\* PERSIST nor VISUALIZE has started; a failure of INGEST, CONFIGURE or LEARN
\* ends the run with nothing written.
C2_PersistAfterLearn ==
    /\ ~r_result.learned =>
          /\ ~r_gph.exists /\ ~r_json.exists /\ ~r_png.exists
          /\ r_pc \notin {"persist", "summary", "visualize"}
          /\ r_sub = "none"
    /\ r_failed \in {"INGEST", "CONFIGURE", "LEARN"} =>
          /\ r_pc = "raised"
          /\ ~r_gph.exists /\ ~r_json.exists /\ ~r_png.exists
          /\ r_sub = "none"

C2_Witness == r_pc = "raised" /\ r_failed = "LEARN" /\ ~r_args.dry_run

\* the edges of the graph, under the name mapping
NamedEdges(edges, names) == {<<names[e[1]], names[e[2]]>> : e \in Range(edges)}

RoundTrips ==
    /\ c_graph.raised = None
    /\ c_graph.edges = NamedEdges(c_edges, c_names)

\* a name with no comma, no line break and no whitespace at either end
PlainName(s) ==
    /\ \A i \in 1 .. Len(s) : s[i] \notin {",", "\n"}
    /\ s # <<>> => ~IsSpace(s[1]) /\ ~IsSpace(s[Len(s)])

\* C3 as stated: for every one-to-one name mapping, read_gph of the text
\* write_gph produced yields the named edge set of the graph.
C3_RoundTripAnyNames == c_pc = "read" => RoundTrips

\* C3 as amended: the round trip holds when no name contains a comma or a
\* line break or starts or ends with whitespace.
C3_RoundTripPlainNames ==
    (c_pc = "read" /\ \A v \in VarIdx : PlainName(c_names[v])) => RoundTrips

C3_Witness ==
    /\ c_pc = "read"
    /\ \A v \in VarIdx : PlainName(c_names[v])
    /\ Len(c_edges) = 2 /\ c_edges[1] = c_edges[2]
    /\ Cardinality(c_graph.edges) = 1
    /\ RoundTrips

HierarchyDone ==
    l_pc = "done" /\ l_result = "ok" /\ l_pos.kind = "hierarchy"

\* C4: on a non-empty DAG the hierarchy layout has one position for every
\* node, and along every edge the level grows strictly and y, the negated
\* level, falls strictly.
C4_LevelsGrow ==
    (HierarchyDone /\ l_n >= 1) =>
        /\ DOMAIN l_pos.pos = 1 .. l_n
        /\ \A v \in 1 .. l_n : l_pos.pos[v][2] = -LevelOf(l_levels, v)
        /\ \A e \in l_edges :
              /\ LevelOf(l_levels, e[2]) > LevelOf(l_levels, e[1])
              /\ l_pos.pos[e[2]][2] < l_pos.pos[e[1]][2]

C4_Witness ==
    /\ HierarchyDone
    /\ l_edges = {<<1, 2>>, <<2, 3>>, <<1, 3>>}
    /\ l_pos.pos[3][2] = -2

\* C5: with kind hierarchy on a graph with a cycle, choose_layout never
\* raises, and what it returns is the spring layout of the same seed, with a
\* position for every node.
C5_CycleFallsBack ==
    (Lower(l_kind) = "hierarchy" /\ ~is_directed_acyclic_graph(l_n, l_edges)) =>
        /\ l_pc # "raised"
        /\ l_pc = "done" =>
              /\ l_result = "ok"
              /\ l_pos = spring_layout(l_n, l_edges, l_seed)
              /\ DOMAIN l_pos.pos = 1 .. l_n

C5_Witness ==
    /\ l_pc = "done"
    /\ l_kind = "hierarchy"
    /\ l_edges = {<<1, 2>>, <<2, 1>>}
    /\ l_pos.kind = "spring"

\* C6 as stated: when the run has ended, either the graph file and the JSON
\* summary are both written, or neither exists.
C6_AllOrNothing ==
    Finished =>
        \/ r_gph.exists /\ r_gph.complete /\ r_json.exists /\ r_json.complete
        \/ ~r_gph.exists /\ ~r_json.exists

\* C7 as stated: when INGEST failed in compute, a record of the failure is in
\* the log file and on the console.
C7_IngestFailureLogged ==
    (r_pc = "raised" /\ r_failed = "INGEST" /\ ~r_args.dry_run) =>
        HasFailureRecord(r_logfile) /\ HasFailureRecord(r_console)

\* the resolution C8 describes: ".gph" is added to a name that does not end
\* in it, and a relative path with no directory goes to the default directory
EndsInGph(name) == Len(name) >= 2 /\ LowerExt(name[Len(name)]) = "gph"

ClaimedOutput(output_gph) ==
    LET name == IF EndsInGph(output_gph.name)
                THEN output_gph.name
                ELSE Append(output_gph.name, "gph")
    IN  IF ~output_gph.abs /\ output_gph.dirs = <<>>
        THEN [abs |-> TRUE, dirs |-> DefaultOutputDir, name |-> name]
        ELSE [output_gph EXCEPT !.name = name]

\* C8 as stated: once main has resolved the output path, it is the path given
\* with a missing ".gph" appended, moved to the default directory when it is
\* relative and has no directory.
C8_OutputResolution ==
    r_pc \notin {"idle", "main"} => r_outfile = ClaimedOutput(r_args.output_gph)

\* C9: a dry run never leaves INGEST and CONFIGURE: nothing is learned, no
\* file is written, no subprocess runs, and when it returns the configuration
\* is logged; without --dry-run compute runs with generate_png = not no_png,
\* and VISUALIZE runs exactly then.
C9_DryRun ==
    /\ (r_args.dry_run /\ r_pc # "main") =>
          /\ r_pc \in {"dry_run", "dry_ingest", "returned", "raised"}
          /\ ~r_result.learned
          /\ ~r_gph.exists /\ ~r_json.exists /\ ~r_png.exists
          /\ r_sub = "none"
          /\ r_pc = "returned" =>
                /\ HasRecord(r_logfile, Info("Configuration:"))
                /\ HasRecord(r_console, Info("Configuration:"))
    /\ (~r_args.dry_run /\ r_pc \notin {"idle", "main"}) =>
          /\ r_pc \notin {"dry_run", "dry_ingest"}
          /\ r_generate_png = ~r_args.no_png
          /\ r_pc = "visualize" => ~r_args.no_png
          /\ r_pc = "returned" => (r_sub # "none" <=> ~r_args.no_png)

C9_Witness ==
    /\ r_args.dry_run /\ ~r_args.no_png
    /\ r_pc = "returned"
    /\ r_dataset = DatasetNames

\* where a node comes in the order the topological sort yielded
Visited(v) == CHOOSE i \in 1 .. l_n : l_order[i] = v

SameLevel(v) == {u \in 1 .. l_n : LevelOf(l_levels, u) = LevelOf(l_levels, v)}

\* the longest path from a node without predecessors
RECURSIVE Depth(_, _)
Depth(edges, v) ==
    IF Predecessors(edges, v) = {} THEN 0
    ELSE 1 + Max({Depth(edges, p) : p \in Predecessors(edges, v)})

\* C10 as stated: on its level a node is indexed by the order of the graph's
\* node set, whatever the topological order; with i its index among the n
\* nodes of the level, x = i/n + 1/(2n) and y = -level; distinct nodes have
\* distinct positions.
C10_NodeSetOrder ==
    HierarchyDone =>
        /\ \A v \in 1 .. l_n :
              LET i == Cardinality({u \in SameLevel(v) : u < v})
                  n == Cardinality(SameLevel(v))
              IN  l_pos.pos[v] = <<Frac(2 * i + 1, 2 * n), -Depth(l_edges, v)>>
        /\ \A u, v \in 1 .. l_n : u # v => l_pos.pos[u] # l_pos.pos[v]

\* C10 as amended: on its level a node is indexed by the order in which the
\* topological sort visited the nodes; with i that index among the n nodes of
\* the level, x = i/n + 1/(2n) and y = -level; distinct nodes have distinct
\* positions.
C10_VisitOrder ==
    HierarchyDone =>
        /\ \A v \in 1 .. l_n :
              LET i == Cardinality({u \in SameLevel(v) : Visited(u) < Visited(v)})
                  n == Cardinality(SameLevel(v))
              IN  l_pos.pos[v] = <<Frac(2 * i + 1, 2 * n), -Depth(l_edges, v)>>
        /\ \A u, v \in 1 .. l_n : u # v => l_pos.pos[u] # l_pos.pos[v]

C10_Witness ==
    /\ HierarchyDone
    /\ l_n = 3
    /\ l_edges = {<<1, 2>>, <<1, 3>>}
    /\ l_order = <<1, 3, 2>>
    /\ l_pos.pos[3] = <<Frac(1, 4), -1>>
    /\ l_pos.pos[2] = <<Frac(3, 4), -1>>

====
